---- MODULE Spec2Model ----
(***************************************************************************)
(* Sequencium (sequencium.py): the board model GameBoard, the search       *)
(* engine SequenciumAI (minimax with alpha-beta pruning) and the callers   *)
(* that drive them.                                                        *)
(*                                                                         *)
(* Python objects are modelled with a heap: a GameBoard object holds its   *)
(* size and two references, one to the grid (a list of lists) and one to   *)
(* the occupancy dictionary; the heap maps a reference to the mutable      *)
(* value it names.  Two objects that hold the same reference alias.        *)
(***************************************************************************)
EXTENDS Integers, Sequences, FiniteSets, TLC

VARIABLES
    heap,             \* sequence of mutable values; a reference is an index
    board,            \* the caller's GameBoard object
    board_copy,       \* the object board.copy() returned, NoObject before the call
    ai,               \* the SequenciumAI object: [max_depth, nodes_evaluated]
    order,            \* which iteration order the interpreter gives a set of coordinates
    call,             \* the last call made: [op, ...arguments]; NoCall when it was consumed
    before,           \* the value of the receiver when that call was made
    other_before,     \* the value of the other board object when that call was made
    ai_before,        \* the AI object when that call was made
    play,             \* the locals of play_game
    pc,               \* the statement play_game is at
    ret,              \* what that call returned
    raised            \* the exception that call raised, or NoError

vars == <<heap, board, board_copy, ai, order, call, before, other_before, ai_before,
          play, pc, ret, raised>>

----------------------------------------------------------------------------
(* Bounds of the model *)

MaxSize == 3        \* board sizes 2..MaxSize (and the size the test scenario uses)
MaxPlaced == 3      \* arbitrary make_move calls go to boards with fewer placements
MaxMoves == 5       \* make_move calls with a listed move go to boards with fewer placements
MaxValue == 4       \* the values of arbitrary make_move calls are 1..MaxValue
MaxCopyMoves == 2   \* with a copy around, make_move goes to boards with fewer placements
MaxNegativeSize == 1       \* the sizes a board is constructed with are (-MaxNegativeSize)..MaxSize
MaxSetup == 3       \* the positions handed to the AI have at most this many placements
MaxDepth == 3       \* max_depth of the AI object is at most this
NumOrders == 2      \* set iteration orders 0..NumOrders-1

(* Program constants *)

StartValue == 1                 \* the value of both starting corners
ScenarioSize == 4               \* test_winner_determination: GameBoard(4)
Inf == 1000000                  \* float('inf'): above every score the evaluator can return

None == <<>>                    \* None where a cell (a tuple) is expected
NoError == "none"
Players == {"A", "B"}           \* Player.A, Player.B

\* a call record: the operation, the object it is called on and its arguments
\* (0, "-" and FALSE where it has none)
Call(op, self, row, col, player, value) ==
    [op |-> op, self |-> self, row |-> row, col |-> col, player |-> player, value |-> value,
     depth |-> 0, alpha |-> 0, beta |-> 0, maximizing_player |-> FALSE]
NoCall == Call("none", "-", 0, 0, "-", 0)

\* play_game is not running: current_player, move_count, valid_moves and
\* best_move are its locals; placed counts the
\* make_move calls that returned True, changed tells whether the iteration
\* under way has placed a cell, idle counts the iterations in a row that have
\* not, skipped tells whether a player who had a move was ever left without
\* a placement
NoPlay ==
    [current_player |-> "-", move_count |-> 0, valid_moves |-> <<>>,
     best_move |-> None, placed |-> 0, changed |-> FALSE, idle |-> 0, skipped |-> FALSE]

\* no GameBoard object, and the value of none
NoObject == [size |-> 0, board |-> 0, player_positions |-> 0]
NoBoard == [size |-> 0, board |-> <<>>, player_positions |-> [p \in Players |-> {}]]

\* a returned value, tagged with its Python type
RetNone == [type |-> "NoneType", bool |-> FALSE, player |-> "-", move |-> <<>>,
            list |-> <<>>, score |-> 0]
RetBool(x) == [RetNone EXCEPT !.type = "bool", !.bool = x]
RetPlayer(p) == [RetNone EXCEPT !.type = "Player", !.player = p]
RetMove(m) == [RetNone EXCEPT !.type = "tuple", !.move = m]
RetList(l) == [RetNone EXCEPT !.type = "list", !.list = l]
RetObject == [RetNone EXCEPT !.type = "GameBoard"]      \* the object is in board or board_copy

Sizes == (2..MaxSize) \cup {ScenarioSize}

----------------------------------------------------------------------------
(* Python list indexing: lst[i] for a list of length n accepts -n..n-1 and *)
(* raises IndexError otherwise; a negative index counts from the end.      *)

IndexOk(i, n) == -n <= i /\ i < n
PyIndex(i, n) == IF i < 0 THEN n + i ELSE i

(* The order in which a set of coordinates is iterated.  Python leaves it  *)
(* to the hash table; the model knows it as a key per coordinate, chosen   *)
(* by `order`.                                                             *)
OrderKey(o, size, pos) ==
    CASE o = 0 -> pos[1] * size + pos[2]
      [] o = 1 -> -(pos[1] * size + pos[2])
      [] o = 2 -> pos[2] * size + pos[1]
      [] OTHER -> -(pos[2] * size + pos[1])

RECURSIVE SetToSeq(_, _, _)
SetToSeq(S, o, size) ==
    IF S = {} THEN <<>>
    ELSE LET first == CHOOSE p \in S :
                        \A q \in S : OrderKey(o, size, p) <= OrderKey(o, size, q)
         IN <<first>> \o SetToSeq(S \ {first}, o, size)

----------------------------------------------------------------------------
(* GameBoard, on board values [size, board, player_positions] *)

Idx(size) == 0..(size - 1)

\* the grid and the occupancy dictionary GameBoard.__init__ builds first
EmptyBoard(size) ==
    [size |-> size,
     board |-> [r \in Idx(size) |-> [c \in Idx(size) |-> None]],
     player_positions |-> [p \in Players |-> {}]]

\* a starting position is written: the cell, then the occupancy set
Start(b, row, col, player) ==
    [b EXCEPT !.board[row][col] = <<player, StartValue>>,
              !.player_positions[player] = @ \cup {<<row, col>>}]

\* mutant of NewBoard: B starts in the corner of the first column
NewBoardFirstColumn(size) ==
    Start(Start(EmptyBoard(size), 0, 0, "A"), size - 1, 0, "B")

\* GameBoard.__init__ for size >= 1: A's start is written, then B's
NewBoard(size) ==
    Start(Start(EmptyBoard(size), 0, 0, "A"), size - 1, size - 1, "B")

\* GameBoard(size) for any integer size: [raised, b].  range(size) is empty for
\* size <= 0, the grid is then the empty list and the write to board[0][0] raises
GameBoard(size) ==
    IF ~IndexOk(0, IF size > 0 THEN size ELSE 0)
    THEN [raised |-> "IndexError", b |-> EmptyBoard(0)]
    ELSE [raised |-> NoError, b |-> NewBoard(size)]

\* mutant of set_cell: the grid is written, the occupancy set is not
set_cell_grid_only(b, row, col, player, value) ==
    [b EXCEPT !.board[row][col] = <<player, value>>]

\* mutant of set_cell: the occupancy set is replaced by the new coordinate
set_cell_replacing(b, row, col, player, value) ==
    [b EXCEPT !.board[row][col] = <<player, value>>,
              !.player_positions[player] = {<<row, col>>}]

\* GameBoard.set_cell
set_cell(b, row, col, player, value) ==
    [b EXCEPT !.board[row][col] = <<player, value>>,
              !.player_positions[player] = @ \cup {<<row, col>>}]

\* the [-1, 0, 1] x [-1, 0, 1] loops of get_neighbors, (0, 0) skipped
Offsets == << <<-1, -1>>, <<-1, 0>>, <<-1, 1>>, <<0, -1>>,
              <<0, 1>>, <<1, -1>>, <<1, 0>>, <<1, 1>> >>

\* mutant of get_neighbors: the four orthogonal neighbours only
get_neighbors_orthogonal(b, row, col) ==
    LET all == [i \in 1..Len(Offsets) |-> <<row + Offsets[i][1], col + Offsets[i][2]>>]
        InBounds(n) == /\ 0 <= n[1] /\ n[1] < b.size /\ 0 <= n[2] /\ n[2] < b.size
                       /\ (n[1] = row \/ n[2] = col)
    IN SelectSeq(all, InBounds)

\* GameBoard.get_neighbors
get_neighbors(b, row, col) ==
    LET all == [i \in 1..Len(Offsets) |-> <<row + Offsets[i][1], col + Offsets[i][2]>>]
        InBounds(n) == 0 <= n[1] /\ n[1] < b.size /\ 0 <= n[2] /\ n[2] < b.size
    IN SelectSeq(all, InBounds)

\* mutant of Proposals: the value proposed is one too high
ProposalsSkipping(empty, new_value) ==
    [k \in 1..Len(empty) |-> <<empty[k][1], empty[k][2], new_value + 1>>]

\* the moves one position proposes: its empty neighbours, each with new_value
Proposals(empty, new_value) ==
    [k \in 1..Len(empty) |-> <<empty[k][1], empty[k][2], new_value>>]

\* the first loop of get_valid_moves: the candidate list, duplicates included
RECURSIVE Candidates(_, _, _)
Candidates(b, positions, i) ==
    IF i > Len(positions) THEN <<>>
    ELSE LET pos == positions[i]
             IsEmpty(n) == b.board[n[1]][n[2]] = None
         IN Proposals(SelectSeq(get_neighbors(b, pos[1], pos[2]), IsEmpty),
                      b.board[pos[1]][pos[2]][2] + 1)
            \o Candidates(b, positions, i + 1)

\* mutant of MoveDict: the first value proposed for a coordinate is kept
RECURSIVE MoveDictKeepFirst(_, _, _)
MoveDictKeepFirst(cands, i, acc) ==
    IF i > Len(cands) THEN acc
    ELSE LET m == cands[i]
             at == {k \in 1..Len(acc) : acc[k][1] = m[1] /\ acc[k][2] = m[2]}
         IN IF at = {} THEN MoveDictKeepFirst(cands, i + 1, Append(acc, m))
            ELSE MoveDictKeepFirst(cands, i + 1, acc)

\* the second loop of get_valid_moves: move_dict, in insertion order
RECURSIVE MoveDict(_, _, _)
MoveDict(cands, i, acc) ==
    IF i > Len(cands) THEN acc
    ELSE LET m == cands[i]
             at == {k \in 1..Len(acc) : acc[k][1] = m[1] /\ acc[k][2] = m[2]}
         IN IF at = {} THEN MoveDict(cands, i + 1, Append(acc, m))
            ELSE LET k == CHOOSE j \in at : TRUE
                 IN IF m[3] > acc[k][3]
                    THEN MoveDict(cands, i + 1, [acc EXCEPT ![k] = m])
                    ELSE MoveDict(cands, i + 1, acc)

\* mutant of get_valid_moves: the candidate list is returned as it is
get_valid_moves_candidates(b, player, o) ==
    Candidates(b, SetToSeq(b.player_positions[player], o, b.size), 1)

\* GameBoard.get_valid_moves: the list of (row, col, value)
get_valid_moves(b, player, o) ==
    MoveDict(Candidates(b, SetToSeq(b.player_positions[player], o, b.size), 1), 1, <<>>)

Range(s) == {s[i] : i \in 1..Len(s)}

\* mutant of make_move: the move is trusted, neither the cell nor the move list is looked at
make_move_trusting(b, row, col, player, value, o) ==
    IF ~IndexOk(row, b.size) \/ ~IndexOk(col, b.size)
    THEN [raised |-> "IndexError", ret |-> RetNone, b |-> b]
    ELSE [raised |-> NoError, ret |-> RetBool(TRUE),
          b |-> set_cell(b, PyIndex(row, b.size), PyIndex(col, b.size), player, value)]

\* GameBoard.make_move: [raised, ret, b], b the board after the call
make_move(b, row, col, player, value, o) ==
    IF ~IndexOk(row, b.size) \/ ~IndexOk(col, b.size)
    THEN [raised |-> "IndexError", ret |-> RetNone, b |-> b]
    ELSE IF b.board[PyIndex(row, b.size)][PyIndex(col, b.size)] # None
    THEN [raised |-> NoError, ret |-> RetBool(FALSE), b |-> b]
    ELSE IF <<row, col, value>> \notin Range(get_valid_moves(b, player, o))
    THEN [raised |-> NoError, ret |-> RetBool(FALSE), b |-> b]
    ELSE [raised |-> NoError, ret |-> RetBool(TRUE),
          b |-> set_cell(b, row, col, player, value)]

\* GameBoard.get_max_value
RECURSIVE MaxOver(_, _)
MaxOver(S, max_val) ==
    IF S = {} THEN max_val
    ELSE LET v == CHOOSE x \in S : TRUE
         IN MaxOver(S \ {v}, IF v > max_val THEN v ELSE max_val)

get_max_value(b, player) ==
    MaxOver({b.board[pos[1]][pos[2]][2] : pos \in b.player_positions[player]}, 0)

\* mutant of is_game_over: over as soon as one player has no move
is_game_over_either(b, o) ==
    Len(get_valid_moves(b, "A", o)) = 0 \/ Len(get_valid_moves(b, "B", o)) = 0

\* GameBoard.is_game_over
is_game_over(b, o) ==
    Len(get_valid_moves(b, "A", o)) = 0 /\ Len(get_valid_moves(b, "B", o)) = 0

\* mutant of get_winner: the players are compared by the number of their cells
get_winner_by_cells(b) ==
    LET cells_a == Cardinality(b.player_positions["A"])
        cells_b == Cardinality(b.player_positions["B"])
    IN IF cells_a > cells_b THEN RetPlayer("A")
       ELSE IF cells_b > cells_a THEN RetPlayer("B")
       ELSE RetNone

\* GameBoard.get_winner
get_winner(b) ==
    LET max_a == get_max_value(b, "A")
        max_b == get_max_value(b, "B")
    IN IF max_a > max_b THEN RetPlayer("A")
       ELSE IF max_b > max_a THEN RetPlayer("B")
       ELSE RetNone

----------------------------------------------------------------------------
(* Objects and the heap *)

\* the value of a GameBoard object in heap h
DerefIn(h, obj) ==
    IF obj = NoObject THEN NoBoard
    ELSE [size |-> obj.size,
          board |-> h[obj.board],
          player_positions |-> h[obj.player_positions]]

Deref(obj) == DerefIn(heap, obj)

\* the heap after the object's grid and occupancy dictionary were mutated to b's
Store(h, obj, b) ==
    [h EXCEPT ![obj.board] = b.board, ![obj.player_positions] = b.player_positions]

\* the board object a call works on: the receiver, or the board handed to a
\* call on the AI object; and the other board object
Object(self) == IF self = "board_copy" THEN board_copy ELSE board
OtherObject(self) == IF self = "board_copy" THEN board ELSE board_copy

\* mutant of deepcopy: the reference itself is handed back
deepcopy_alias(h, ref) ==
    [heap |-> h, ref |-> ref]

\* copy.deepcopy of a list of lists of tuples, or of a dict of sets of tuples:
\* a new mutable value equal to the old one
deepcopy(h, ref) ==
    [heap |-> Append(h, h[ref]), ref |-> Len(h) + 1]

\* GameBoard.copy: [heap, obj], the new object and the heap that holds its values
\* (the grid and dictionary GameBoard(self.size) built are dropped at once)
copy(h, obj) ==
    LET g == deepcopy(h, obj.board)
        p == deepcopy(g.heap, obj.player_positions)
    IN [heap |-> p.heap,
        obj |-> [size |-> obj.size, board |-> g.ref, player_positions |-> p.ref]]

Placed(b) ==
    Cardinality({rc \in Idx(b.size) \X Idx(b.size) : b.board[rc[1]][rc[2]] # None}) - 2

Coords(size) == -1..size
Values == 1..MaxValue

\* the moves get_valid_moves lists on b, each with the player it is listed for
ListedMoves(b, o) ==
    UNION {{<<m[1], m[2], p, m[3]>> : m \in Range(get_valid_moves(b, p, o))} :
             p \in Players}

\* a position is set up with listed moves
SetupArgs(b, o) ==
    IF Placed(b) < MaxSetup THEN ListedMoves(b, o) ELSE {}

\* the arguments of the make_move calls made on board value b: any coordinates
\* (one below and one above the grid included), any player and value, and the
\* moves get_valid_moves lists, which is what play_game and minimax pass
MoveArgs(b, o) ==
    (IF Placed(b) < MaxPlaced
     THEN Coords(b.size) \X Coords(b.size) \X Players \X Values ELSE {})
    \cup
    (IF Placed(b) < MaxMoves THEN ListedMoves(b, o) ELSE {})

\* SequenciumAI.__init__
NewAI(max_depth) == [max_depth |-> max_depth, nodes_evaluated |-> 0]

\* board = GameBoard(size); the AI object is not used
Init ==
    /\ \E size \in Sizes :
          /\ heap = <<NewBoard(size).board, NewBoard(size).player_positions>>
          /\ board = [size |-> size, board |-> 1, player_positions |-> 2]
    /\ board_copy = NoObject
    /\ ai = NewAI(0)
    /\ order = 0
    /\ call = NoCall
    /\ before = NoBoard
    /\ other_before = NoBoard
    /\ ai_before = NewAI(0)
    /\ play = NoPlay
    /\ pc = "none"
    /\ ret = RetNone
    /\ raised = NoError

\* what every call records: the call, and both boards as it found them
Called(op, self, row, col, player, value) ==
    /\ call = NoCall
    /\ call' = Call(op, self, row, col, player, value)
    /\ before' = Deref(Object(self))
    /\ other_before' = Deref(OtherObject(self))
    /\ ai_before' = ai
    /\ play' = play
    /\ pc' = pc

\* what make_move leaves behind, r its [raised, ret, b]
MakeMoveDone(self, r) ==
    /\ heap' = Store(heap, Object(self), r.b)
    /\ raised' = r.raised
    /\ ret' = r.ret

\* self.make_move(row, col, player, value)
MakeMove(self, row, col, player, value) ==
    /\ Called("make_move", self, row, col, player, value)
    /\ MakeMoveDone(self, make_move(Deref(Object(self)), row, col, player, value, order))
    /\ UNCHANGED <<board, board_copy, ai, order>>

\* board.get_valid_moves(player)
GetValidMoves(player) ==
    /\ Called("get_valid_moves", "board", 0, 0, player, 0)
    /\ ret' = RetList(get_valid_moves(Deref(board), player, order))
    /\ raised' = NoError
    /\ UNCHANGED <<heap, board, board_copy, ai, order>>

\* board.is_game_over()
IsGameOver ==
    /\ Called("is_game_over", "board", 0, 0, "-", 0)
    /\ ret' = RetBool(is_game_over(Deref(board), order))
    /\ raised' = NoError
    /\ UNCHANGED <<heap, board, board_copy, ai, order>>

\* board.get_winner()
GetWinner ==
    /\ Called("get_winner", "board", 0, 0, "-", 0)
    /\ ret' = get_winner(Deref(board))
    /\ raised' = NoError
    /\ UNCHANGED <<heap, board, board_copy, ai, order>>

\* what copy leaves behind, r its [heap, obj]
CopyDone(r) ==
    /\ heap' = r.heap
    /\ board_copy' = r.obj

\* board_copy = board.copy()
Copy ==
    /\ board_copy = NoObject
    /\ Called("copy", "board", 0, 0, "-", 0)
    /\ CopyDone(copy(heap, board))
    /\ ret' = RetObject
    /\ raised' = NoError
    /\ UNCHANGED <<board, ai, order>>

\* the caller is done with the result of the last call
Return ==
    /\ call # NoCall
    /\ call' = NoCall
    /\ before' = NoBoard
    /\ other_before' = NoBoard
    /\ ai_before' = NewAI(0)
    /\ play' = play
    /\ pc' = pc
    /\ ret' = RetNone
    /\ raised' = NoError
    /\ UNCHANGED <<heap, board, board_copy, ai, order>>

Next ==
    \/ \E a \in MoveArgs(Deref(board), order) : MakeMove("board", a[1], a[2], a[3], a[4])
    \/ \E player \in Players : GetValidMoves(player)
    \/ IsGameOver
    \/ GetWinner
    \/ Return

Spec == Init /\ [][Next]_vars

----------------------------------------------------------------------------
(* Construction with any size, also one below 2, and the calls made on the *)
(* board that came out of it.                                              *)

\* what board = GameBoard(size) leaves behind, r its [raised, b]
Constructed(size, r) ==
    /\ call = Call("__init__", "board", 0, 0, "-", size)
    /\ raised = r.raised
    /\ IF r.raised # NoError
       THEN heap = <<>> /\ board = NoObject /\ ret = RetNone
       ELSE /\ heap = <<r.b.board, r.b.player_positions>>
            /\ board = [size |-> size, board |-> 1, player_positions |-> 2]
            /\ ret = RetObject

\* board = GameBoard(size)
InitNew ==
    /\ \E size \in (-MaxNegativeSize)..MaxSize : Constructed(size, GameBoard(size))
    /\ board_copy = NoObject
    /\ ai = NewAI(0)
    /\ order = 0
    /\ before = NoBoard
    /\ other_before = NoBoard
    /\ ai_before = NewAI(0)
    /\ play = NoPlay
    /\ pc = "none"

NextNew ==
    \/ /\ board # NoObject
       /\ \E a \in SetupArgs(Deref(board), order) : MakeMove("board", a[1], a[2], a[3], a[4])
    \/ board # NoObject /\ \E player \in Players : GetValidMoves(player)
    \/ board # NoObject /\ IsGameOver
    \/ board # NoObject /\ GetWinner
    \/ Return

SpecNew == InitNew /\ [][NextNew]_vars

----------------------------------------------------------------------------
(* A board and its copy: make_move calls on either, with the moves listed  *)
(* for either player passed by either player.                              *)

CopyArgs(b, o) ==
    IF Placed(b) < MaxCopyMoves
    THEN {<<a[1], a[2], p, a[4]>> : a \in ListedMoves(b, o), p \in Players}
    ELSE {}

NextCopy ==
    \/ \E self \in {"board", "board_copy"} :
          /\ Object(self) # NoObject
          /\ \E a \in CopyArgs(Deref(Object(self)), order) :
                MakeMove(self, a[1], a[2], a[3], a[4])
    \/ Copy
    \/ Return

SpecCopy == Init /\ [][NextCopy]_vars

----------------------------------------------------------------------------
(* SequenciumAI.  The search works on objects: every move is tried on a    *)
(* copy of the board object, so the functions below carry the heap.        *)

\* mutant of evaluate_position: the weights of the first two terms are exchanged
evaluate_position_cells_first(b, player, o) ==
    LET opponent == IF player = "A" THEN "B" ELSE "A"
        max_diff == get_max_value(b, player) - get_max_value(b, opponent)
        cell_diff == Cardinality(b.player_positions[player])
                     - Cardinality(b.player_positions[opponent])
        mobility_diff == Len(get_valid_moves(b, player, o))
                         - Len(get_valid_moves(b, opponent, o))
    IN max_diff * 10 + cell_diff * 100 + mobility_diff

\* SequenciumAI.evaluate_position
evaluate_position(b, player, o) ==
    LET opponent == IF player = "A" THEN "B" ELSE "A"
        max_diff == get_max_value(b, player) - get_max_value(b, opponent)
        cell_diff == Cardinality(b.player_positions[player])
                     - Cardinality(b.player_positions[opponent])
        mobility_diff == Len(get_valid_moves(b, player, o))
                         - Len(get_valid_moves(b, opponent, o))
    IN max_diff * 100 + cell_diff * 10 + mobility_diff

\* mutant of Cutoff: the loop is left while the window still holds a score
CutoffEarly(alpha, beta) == beta <= alpha + 1

\* the test that ends a loop of minimax early
Cutoff(alpha, beta) == beta <= alpha

\* mutant of TryMove: the move is made on the board of the node, not on a copy
TryMoveInPlace(h, obj, move, current_player, o) ==
    LET m == make_move(DerefIn(h, obj), move[1], move[2], current_player, move[3], o)
    IN [heap |-> Store(h, obj, m.b), obj |-> obj, raised |-> m.raised]

\* new_board = board.copy(); new_board.make_move(row, col, current_player, value):
\* [heap, obj, raised], the new object, the heap with it and what make_move raised
TryMove(h, obj, move, current_player, o) ==
    LET c == copy(h, obj)
        m == make_move(DerefIn(c.heap, c.obj), move[1], move[2], current_player, move[3], o)
    IN [heap |-> Store(c.heap, c.obj, m.b), obj |-> c.obj, raised |-> m.raised]

\* what is left of heap h2 once the objects made after heap h are garbage
Collect(h2, h) == SubSeq(h2, 1, Len(h))

RECURSIVE minimax(_, _, _, _, _, _, _, _)
RECURSIVE MaxLoop(_, _, _, _, _, _, _, _, _, _, _, _)
RECURSIVE MaxStep(_, _, _, _, _, _, _, _, _, _, _, _, _)
RECURSIVE MinLoop(_, _, _, _, _, _, _, _, _, _, _, _)
RECURSIVE MinStep(_, _, _, _, _, _, _, _, _, _, _, _, _)

\* self.minimax(new_board, depth - 1, alpha, beta, maximizing_player, player)
\* (an exception of make_move leaves the search before it)
Child(new_board, depth, alpha, beta, maximizing_player, player, o) ==
    IF new_board.raised # NoError
    THEN [score |-> 0, move |-> None, nodes |-> 0, heap |-> new_board.heap,
          raised |-> new_board.raised]
    ELSE minimax(new_board.heap, new_board.obj, depth - 1, alpha, beta,
                 maximizing_player, player, o)

\* the loop of the maximizing player from the i-th move on; nodes counts the
\* calls of minimax made so far under this node, the node included
MaxLoop(h, obj, depth, alpha, beta, player, o, valid_moves, i, max_eval, best_move, nodes) ==
    IF i > Len(valid_moves)
    THEN [score |-> max_eval, move |-> best_move, nodes |-> nodes, heap |-> h,
          raised |-> NoError]
    ELSE MaxStep(h, obj, depth, alpha, beta, player, o, valid_moves, i, max_eval, best_move, nodes,
                 Child(TryMove(h, obj, valid_moves[i], player, o),
                       depth, alpha, beta, FALSE, player, o))

\* mutant of MaxStep: a move whose score equals the best so far replaces it
MaxStepLast(h, obj, depth, alpha, beta, player, o, valid_moves, i, max_eval, best_move, nodes, r) ==
    LET better == r.score >= max_eval
        max_eval2 == IF better THEN r.score ELSE max_eval
        best_move2 == IF better THEN valid_moves[i] ELSE best_move
        alpha2 == IF r.score > alpha THEN r.score ELSE alpha
    IN IF r.raised # NoError
       THEN [r EXCEPT !.nodes = nodes + r.nodes, !.heap = Collect(r.heap, h)]
       ELSE IF Cutoff(alpha2, beta)
       THEN [score |-> max_eval2, move |-> best_move2,
             nodes |-> nodes + r.nodes, heap |-> Collect(r.heap, h), raised |-> NoError]
       ELSE MaxLoop(Collect(r.heap, h), obj, depth, alpha2, beta, player, o, valid_moves,
                    i + 1, max_eval2, best_move2, nodes + r.nodes)

\* the rest of an iteration of that loop, r the result of the recursive call
MaxStep(h, obj, depth, alpha, beta, player, o, valid_moves, i, max_eval, best_move, nodes, r) ==
    LET better == r.score > max_eval
        max_eval2 == IF better THEN r.score ELSE max_eval
        best_move2 == IF better THEN valid_moves[i] ELSE best_move
        alpha2 == IF r.score > alpha THEN r.score ELSE alpha
    IN IF r.raised # NoError
       THEN [r EXCEPT !.nodes = nodes + r.nodes, !.heap = Collect(r.heap, h)]
       ELSE IF Cutoff(alpha2, beta)
       THEN [score |-> max_eval2, move |-> best_move2,
             nodes |-> nodes + r.nodes, heap |-> Collect(r.heap, h), raised |-> NoError]
       ELSE MaxLoop(Collect(r.heap, h), obj, depth, alpha2, beta, player, o, valid_moves,
                    i + 1, max_eval2, best_move2, nodes + r.nodes)

\* the loop of the minimizing player from the i-th move on
MinLoop(h, obj, depth, alpha, beta, player, o, valid_moves, i, min_eval, best_move, nodes) ==
    IF i > Len(valid_moves)
    THEN [score |-> min_eval, move |-> best_move, nodes |-> nodes, heap |-> h,
          raised |-> NoError]
    ELSE MinStep(h, obj, depth, alpha, beta, player, o, valid_moves, i, min_eval, best_move, nodes,
                 Child(TryMove(h, obj, valid_moves[i], IF player = "A" THEN "B" ELSE "A", o),
                       depth, alpha, beta, TRUE, player, o))

\* the rest of an iteration of that loop, r the result of the recursive call
MinStep(h, obj, depth, alpha, beta, player, o, valid_moves, i, min_eval, best_move, nodes, r) ==
    LET better == r.score < min_eval
        min_eval2 == IF better THEN r.score ELSE min_eval
        best_move2 == IF better THEN valid_moves[i] ELSE best_move
        beta2 == IF r.score < beta THEN r.score ELSE beta
    IN IF r.raised # NoError
       THEN [r EXCEPT !.nodes = nodes + r.nodes, !.heap = Collect(r.heap, h)]
       ELSE IF Cutoff(alpha, beta2)
       THEN [score |-> min_eval2, move |-> best_move2,
             nodes |-> nodes + r.nodes, heap |-> Collect(r.heap, h), raised |-> NoError]
       ELSE MinLoop(Collect(r.heap, h), obj, depth, alpha, beta2, player, o, valid_moves,
                    i + 1, min_eval2, best_move2, nodes + r.nodes)

\* mutant of Moves: a node whose player has no move is evaluated as a leaf
MovesPassIsLeaf(h, obj, depth, alpha, beta, maximizing_player, player, o, valid_moves) ==
    IF valid_moves = <<>>
    THEN [score |-> evaluate_position(DerefIn(h, obj), player, o), move |-> None,
          nodes |-> 1, heap |-> h, raised |-> NoError]
    ELSE IF maximizing_player
    THEN MaxLoop(h, obj, depth, alpha, beta, player, o, valid_moves, 1, -Inf, None, 1)
    ELSE MinLoop(h, obj, depth, alpha, beta, player, o, valid_moves, 1, Inf, None, 1)

\* mutant of Moves: the best score of the maximizing player starts at 0
MovesFromZero(h, obj, depth, alpha, beta, maximizing_player, player, o, valid_moves) ==
    IF valid_moves = <<>>
    THEN [minimax(h, obj, depth - 1, alpha, beta, ~maximizing_player, player, o)
            EXCEPT !.nodes = @ + 1]
    ELSE IF maximizing_player
    THEN MaxLoop(h, obj, depth, alpha, beta, player, o, valid_moves, 1, 0, None, 1)
    ELSE MinLoop(h, obj, depth, alpha, beta, player, o, valid_moves, 1, Inf, None, 1)

\* the part of minimax after valid_moves was computed
Moves(h, obj, depth, alpha, beta, maximizing_player, player, o, valid_moves) ==
    IF valid_moves = <<>>
    THEN [minimax(h, obj, depth - 1, alpha, beta, ~maximizing_player, player, o)
            EXCEPT !.nodes = @ + 1]
    ELSE IF maximizing_player
    THEN MaxLoop(h, obj, depth, alpha, beta, player, o, valid_moves, 1, -Inf, None, 1)
    ELSE MinLoop(h, obj, depth, alpha, beta, player, o, valid_moves, 1, Inf, None, 1)

\* SequenciumAI.minimax: [score, move, nodes, heap, raised], nodes the number
\* of times nodes_evaluated was incremented
minimax(h, obj, depth, alpha, beta, maximizing_player, player, o) ==
    IF depth = 0 \/ is_game_over(DerefIn(h, obj), o)
    THEN [score |-> evaluate_position(DerefIn(h, obj), player, o), move |-> None,
          nodes |-> 1, heap |-> h, raised |-> NoError]
    ELSE Moves(h, obj, depth, alpha, beta, maximizing_player, player, o,
               get_valid_moves(DerefIn(h, obj),
                               IF maximizing_player THEN player
                               ELSE IF player = "A" THEN "B" ELSE "A", o))

\* what get_best_move makes of the result r of the root call of minimax: the
\* move is returned, the score dropped (kept here for the record)
BestMoveOf(r) ==
    [ret |-> IF r.raised # NoError \/ r.move = None THEN RetNone ELSE RetMove(r.move),
     score |-> r.score, nodes_evaluated |-> r.nodes, heap |-> r.heap, raised |-> r.raised]

\* mutant of get_best_move: the search is started whether or not the player can move
get_best_move_unchecked(h, obj, max_depth, player, o) ==
    BestMoveOf(minimax(h, obj, max_depth, -Inf, Inf, TRUE, player, o))

\* SequenciumAI.get_best_move: [ret, score, nodes_evaluated, heap, raised],
\* nodes_evaluated the increments made after the reset
get_best_move(h, obj, max_depth, player, o) ==
    IF get_valid_moves(DerefIn(h, obj), player, o) = <<>>
    THEN [ret |-> RetNone, score |-> 0, nodes_evaluated |-> 0, heap |-> h,
          raised |-> NoError]
    ELSE BestMoveOf(minimax(h, obj, max_depth, -Inf, Inf, TRUE, player, o))

\* board = GameBoard(size); ai = SequenciumAI(max_depth)
InitAI ==
    /\ \E size \in 2..MaxSize :
          /\ heap = <<NewBoard(size).board, NewBoard(size).player_positions>>
          /\ board = [size |-> size, board |-> 1, player_positions |-> 2]
    /\ board_copy = NoObject
    /\ \E max_depth \in 1..MaxDepth : ai = NewAI(max_depth)
    /\ order \in 0..(NumOrders - 1)
    /\ call = NoCall
    /\ before = NoBoard
    /\ other_before = NoBoard
    /\ ai_before = NewAI(0)
    /\ play = NoPlay
    /\ pc = "none"
    /\ ret = RetNone
    /\ raised = NoError

\* mutant of ResetCount: the counter goes on from where the last call left it
KeepCount(nodes_evaluated) == nodes_evaluated

\* self.nodes_evaluated = 0, the first statement of get_best_move
ResetCount(nodes_evaluated) == 0

\* what get_best_move leaves behind, r its [ret, score, nodes_evaluated, heap, raised]
GetBestMoveDone(r) ==
    /\ heap' = Collect(r.heap, heap)
    /\ ai' = [ai EXCEPT !.nodes_evaluated = ResetCount(@) + r.nodes_evaluated]
    /\ ret' = [r.ret EXCEPT !.score = r.score]
    /\ raised' = r.raised

\* ai.get_best_move(board, player).  ret keeps, next to the move, the score
\* minimax returned to get_best_move.
GetBestMove(player) ==
    /\ Called("get_best_move", "ai", 0, 0, player, 0)
    /\ GetBestMoveDone(get_best_move(heap, board, ai.max_depth, player, order))
    /\ UNCHANGED <<board, board_copy, order>>

\* a position is set up with make_move calls before the AI searches
SetUp ==
    /\ ai.nodes_evaluated = 0
    /\ \E a \in SetupArgs(Deref(board), order) : MakeMove("board", a[1], a[2], a[3], a[4])

NextAI ==
    \/ SetUp
    \/ \E player \in Players : GetBestMove(player)
    \/ Return

SpecAI == InitAI /\ [][NextAI]_vars

----------------------------------------------------------------------------
(* What the claims speak of, read off the grid alone *)

Cells(b) == Idx(b.size) \X Idx(b.size)

InGrid(b, row, col) == row \in Idx(b.size) /\ col \in Idx(b.size)

Abs(x) == IF x < 0 THEN -x ELSE x

\* the cells of the grid that touch (row, col), diagonals included
Adjacent8(b, row, col) ==
    {n \in Cells(b) : n # <<row, col>> /\ Abs(n[1] - row) <= 1 /\ Abs(n[2] - col) <= 1}

Owner(b, n) == b.board[n[1]][n[2]][1]
ValueAt(b, n) == b.board[n[1]][n[2]][2]
Occupied(b, n) == b.board[n[1]][n[2]] # None

OwnedNeighbours(b, row, col, player) ==
    {n \in Adjacent8(b, row, col) : Occupied(b, n) /\ Owner(b, n) = player}

SetMax(S) == CHOOSE x \in S : \A y \in S : y <= x

\* the value a placement by player at (row, col) must carry
LegalValue(b, row, col, player) ==
    1 + SetMax({ValueAt(b, n) : n \in OwnedNeighbours(b, row, col, player)})

\* the highest value on the grid among player's cells, 0 without any
GridMax(b, player) ==
    LET vals == {ValueAt(b, n) : n \in {c \in Cells(b) : Occupied(b, c) /\ Owner(b, c) = player}}
    IN IF vals = {} THEN 0 ELSE SetMax(vals)

CanMove(b, player) ==
    \E n \in Cells(b) : ~Occupied(b, n) /\ OwnedNeighbours(b, n[1], n[2], player) # {}

Other(player) == IF player = "A" THEN "B" ELSE "A"

----------------------------------------------------------------------------
(* C2: for in-range target coordinates make_move returns True exactly when *)
(* the target cell is empty, some 8-neighbour of it is owned by the player *)
(* and the value is 1 + the highest value among the 8-neighbours the       *)
(* player owns; on True the cell becomes (player, value) and the           *)
(* coordinate joins the player's occupancy set.                            *)
C2_MakeMoveLegality ==
    (call.op = "make_move" /\ InGrid(before, call.row, call.col)) =>
        LET legal == /\ ~Occupied(before, <<call.row, call.col>>)
                     /\ OwnedNeighbours(before, call.row, call.col, call.player) # {}
                     /\ call.value = LegalValue(before, call.row, call.col, call.player)
            after == Deref(Object(call.self))
        IN /\ raised = NoError
           /\ ret = RetBool(legal)
           /\ legal => /\ after.board[call.row][call.col] = <<call.player, call.value>>
                       /\ <<call.row, call.col>> \in after.player_positions[call.player]

\* a placement one below the legal value, at an empty cell that touches two
\* of the player's cells with different values, was rejected
C2_Witness ==
    /\ call.op = "make_move"
    /\ InGrid(before, call.row, call.col)
    /\ ~Occupied(before, <<call.row, call.col>>)
    /\ Cardinality({ValueAt(before, n) :
                      n \in OwnedNeighbours(before, call.row, call.col, call.player)}) >= 2
    /\ call.value = LegalValue(before, call.row, call.col, call.player) - 1
    /\ ret = RetBool(FALSE)

(* C3: make_move on a cell that is already occupied returns False and      *)
(* leaves the grid and both occupancy sets as they were, whoever owns the  *)
(* cell, whoever calls and whatever the value.                             *)
C3_OccupiedTargetRejected ==
    (/\ call.op = "make_move"
     /\ InGrid(before, call.row, call.col)
     /\ Occupied(before, <<call.row, call.col>>)) =>
        /\ raised = NoError
        /\ ret = RetBool(FALSE)
        /\ Deref(Object(call.self)) = before

\* the opponent of a cell's owner called make_move on it with the value the
\* cell would need
C3_Witness ==
    /\ call.op = "make_move"
    /\ InGrid(before, call.row, call.col)
    /\ Occupied(before, <<call.row, call.col>>)
    /\ Owner(before, <<call.row, call.col>>) = Other(call.player)
    /\ OwnedNeighbours(before, call.row, call.col, call.player) # {}
    /\ call.value = LegalValue(before, call.row, call.col, call.player)
    /\ ret = RetBool(FALSE)

(* C4: make_move never raises: for every row and col, those outside the    *)
(* grid included, the call returns a boolean, and for a target outside the *)
(* grid it returns False and leaves the board unchanged.                   *)
C4_MakeMoveNeverRaises ==
    call.op = "make_move" =>
        /\ raised = NoError
        /\ ret.type = "bool"
        /\ ~InGrid(before, call.row, call.col) => (ret = RetBool(FALSE) /\ Deref(Object(call.self)) = before)

(* C5: after any sequence of make_move calls the two occupancy sets are    *)
(* disjoint, every coordinate in a player's set holds a cell of that       *)
(* player, and the two sets together are exactly the non-empty cells.      *)
C5_OccupancyPartition ==
    LET b == Deref(board)
    IN /\ b.player_positions["A"] \cap b.player_positions["B"] = {}
       /\ \A p \in Players : \A n \in b.player_positions[p] :
             n \in Cells(b) /\ Occupied(b, n) /\ Owner(b, n) = p
       /\ b.player_positions["A"] \cup b.player_positions["B"]
             = {n \in Cells(b) : Occupied(b, n)}

\* a successful placement on a board where both players had already placed
C5_Witness ==
    /\ call.op = "make_move"
    /\ raised = NoError
    /\ ret = RetBool(TRUE)
    /\ \A p \in Players : Cardinality(before.player_positions[p]) >= 2

(* C7 as stated: on a freshly constructed board of any size N >= 2 each    *)
(* player has exactly 3 legal moves, each with value 2.                    *)
C7_ThreeMovesOnAnyFreshBoard ==
    (call.op = "get_valid_moves" /\ Placed(before) = 0) =>
        /\ Len(ret.list) = 3
        /\ \A i \in 1..Len(ret.list) : ret.list[i][3] = 2

(* C7, amended: on a freshly constructed board each player's legal moves   *)
(* are the empty in-bounds 8-neighbours of the player's corner, each once  *)
(* and with value 2: 3 moves when N >= 3, 2 moves when N = 2, where the    *)
(* diagonal neighbour is the opponent's corner.                            *)
C7_FreshBoardMoves ==
    (call.op = "get_valid_moves" /\ Placed(before) = 0) =>
        LET corner == IF call.player = "A" THEN <<0, 0>>
                      ELSE <<before.size - 1, before.size - 1>>
            free == {n \in Adjacent8(before, corner[1], corner[2]) : ~Occupied(before, n)}
        IN /\ Len(ret.list) = (IF before.size = 2 THEN 2 ELSE 3)
           /\ Len(ret.list) = Cardinality(free)
           /\ {<<ret.list[i][1], ret.list[i][2]>> : i \in 1..Len(ret.list)} = free
           /\ \A i \in 1..Len(ret.list) : ret.list[i][3] = 2

\* player B asked for the moves of a fresh board larger than 2x2
C7_Witness ==
    /\ call.op = "get_valid_moves"
    /\ call.player = "B"
    /\ Placed(before) = 0
    /\ before.size > 2
    /\ Len(ret.list) = 3

(* C8: is_game_over() is true exactly when get_valid_moves(A) and          *)
(* get_valid_moves(B) are both empty: one player blocked while the other   *)
(* can move is not game over; the 2x2 board after A played (0,1,2) and B   *)
(* played (1,0,2) is game over, the initial board is not.                  *)
C8_GameOverIffNoMoves ==
    call.op = "is_game_over" =>
        /\ ret = RetBool(/\ get_valid_moves(before, "A", order) = <<>>
                         /\ get_valid_moves(before, "B", order) = <<>>)
        /\ (\E p \in Players : CanMove(before, p)) => ret = RetBool(FALSE)
        /\ (/\ before.size = 2
            /\ before.board[0][1] = <<"A", 2>>
            /\ before.board[1][0] = <<"B", 2>>) => ret = RetBool(TRUE)
        /\ Placed(before) = 0 => ret = RetBool(FALSE)

\* is_game_over answered False where A is blocked and B can still move
C8_Witness ==
    /\ call.op = "is_game_over"
    /\ ~CanMove(before, "A")
    /\ CanMove(before, "B")
    /\ ret = RetBool(FALSE)

\* the 2x2 scenario of test_game_over was played and is_game_over answered True
C8_ScenarioReached ==
    /\ call.op = "is_game_over"
    /\ before.size = 2
    /\ before.board[0][1] = <<"A", 2>>
    /\ before.board[1][0] = <<"B", 2>>
    /\ ret = RetBool(TRUE)

\* the calls of test_winner_determination, in order
ScenarioCalls == << <<0, 1, "A", 2>>, <<1, 0, "A", 2>>, <<1, 1, "A", 3>>, <<3, 2, "B", 2>> >>

\* the board after the first n of these calls were made on b
RECURSIVE AfterCalls(_, _, _)
AfterCalls(b, calls, n) ==
    IF n = 0 THEN b
    ELSE LET c == calls[n]
         IN make_move(AfterCalls(b, calls, n - 1), c[1], c[2], c[3], c[4], 0).b

WinnerScenario(b) == b = AfterCalls(NewBoard(ScenarioSize), ScenarioCalls, Len(ScenarioCalls))

(* C9: get_winner returns A when A's highest value is above B's, B when    *)
(* B's is above A's and None when they are equal, whatever the numbers of  *)
(* cells; on the 4x4 board after make_move(0,1,A,2), (1,0,A,2), (1,1,A,3)  *)
(* and (3,2,B,2) the winner is A, with highest values 3 and 2.             *)
C9_WinnerByMaxValue ==
    call.op = "get_winner" =>
        LET max_a == GridMax(before, "A")
            max_b == GridMax(before, "B")
        IN /\ max_a > max_b => ret = RetPlayer("A")
           /\ max_b > max_a => ret = RetPlayer("B")
           /\ max_a = max_b => ret = RetNone
           /\ WinnerScenario(before) => (ret = RetPlayer("A") /\ max_a = 3 /\ max_b = 2)

\* get_winner was called on the board of the test scenario
C9_Witness ==
    /\ call.op = "get_winner"
    /\ WinnerScenario(before)
    /\ ret = RetPlayer("A")

----------------------------------------------------------------------------
\* C10: copy() returns a board equal to its source (size, grid and occupancy
\* sets) and leaves the source as it was; from then on a make_move call on the
\* copy leaves the source's grid and occupancy sets as they were when the call
\* was made, and a make_move call on the source leaves the copy's so, whatever
\* the call returns; hence so does every sequence of such calls.
C10_CopyEqualAndIndependent ==
    /\ call.op = "copy" =>
          /\ Deref(board_copy) = before
          /\ Deref(board) = before
    /\ (call.op = "make_move" /\ board_copy # NoObject) =>
          Deref(OtherObject(call.self)) = other_before

\* a make_move call on the copy succeeded and the copy now differs from the source
C10_Witness ==
    /\ call.op = "make_move"
    /\ call.self = "board_copy"
    /\ ret = RetBool(TRUE)
    /\ Deref(board_copy) # before
    /\ Deref(board) # Deref(board_copy)
    /\ Placed(Deref(board)) > 0

----------------------------------------------------------------------------
(* Minimax without pruning, on board values: the tree of minimax with its  *)
(* depth limit, its leaves and its pass rule, every move of every node     *)
(* searched.  [score, nodes], nodes the number of nodes of the tree.       *)

SetMin(S) == CHOOSE x \in S : \A y \in S : x <= y

RECURSIVE SumNodes(_, _)
SumNodes(kids, i) == IF i > Len(kids) THEN 0 ELSE kids[i].nodes + SumNodes(kids, i + 1)

RECURSIVE Exhaustive(_, _, _, _, _)

\* a node whose player passes, r the tree below it
PassNode(r) == [score |-> r.score, nodes |-> r.nodes + 1]

\* a node whose player moves, kids the trees below it
MoveNode(maximizing, kids) ==
    [score |-> IF maximizing THEN SetMax({kids[i].score : i \in 1..Len(kids)})
               ELSE SetMin({kids[i].score : i \in 1..Len(kids)}),
     nodes |-> 1 + SumNodes(kids, 1)]

ExhaustiveMoves(b, depth, maximizing, player, o, moves) ==
    IF moves = <<>>
    THEN PassNode(Exhaustive(b, depth - 1, ~maximizing, player, o))
    ELSE MoveNode(maximizing,
                  [i \in 1..Len(moves) |->
                     Exhaustive(set_cell(b, moves[i][1], moves[i][2],
                                         IF maximizing THEN player ELSE Other(player),
                                         moves[i][3]),
                                depth - 1, ~maximizing, player, o)])

Exhaustive(b, depth, maximizing, player, o) ==
    IF depth = 0 \/ is_game_over(b, o)
    THEN [score |-> evaluate_position(b, player, o), nodes |-> 1]
    ELSE ExhaustiveMoves(b, depth, maximizing, player, o,
                         get_valid_moves(b, IF maximizing THEN player ELSE Other(player), o))

\* the unpruned value of the position player reaches with a root move
MoveValue(b, depth, player, o, move) ==
    Exhaustive(set_cell(b, move[1], move[2], player, move[3]), depth - 1, FALSE, player, o).score

\* a board value as an object in a heap of its own
AsHeap(b) == <<b.board, b.player_positions>>
AsObject(b) == [size |-> b.size, board |-> 1, player_positions |-> 2]

\* the search that was made agrees with the unpruned root value
AgreesWith(root) ==
    /\ minimax(AsHeap(before), AsObject(before), ai.max_depth, -Inf, Inf, TRUE,
               call.player, order).score = root
    /\ ret.type = "tuple" =>
          /\ ret.score = root
          /\ ret.move \in Range(get_valid_moves(before, call.player, order))
          /\ MoveValue(before, ai.max_depth, call.player, order, ret.move) = root

(* C1: for max_depth >= 1, on every board and for either player, the score *)
(* minimax returns at the root with the window (-inf, +inf) is the value   *)
(* of the unpruned minimax of the same tree, and the move get_best_move    *)
(* returns is a root move whose unpruned value is that root value.         *)
C1_AlphaBetaEquivalence ==
    (call.op = "get_best_move" /\ ai.max_depth >= 1) =>
        AgreesWith(Exhaustive(before, ai.max_depth, TRUE, call.player, order).score)

\* a search of depth 3 that visited fewer nodes than the tree has, at a root
\* where not every move is a best one
C1_Witness ==
    /\ call.op = "get_best_move"
    /\ ai.max_depth = 3
    /\ ret.type = "tuple"
    /\ ai.nodes_evaluated
         < Exhaustive(before, ai.max_depth, TRUE, call.player, order).nodes
    /\ \E m \in Range(get_valid_moves(before, call.player, order)) :
          MoveValue(before, ai.max_depth, call.player, order, m) < ret.score

(* C6: for max_depth >= 1, get_best_move(board, player) returns None       *)
(* exactly when the player has no legal move; otherwise it returns,        *)
(* without raising, a move (row, col, value) that get_valid_moves(player)  *)
(* lists.                                                                  *)
C6_BestMoveNoneIffNoMoves ==
    (call.op = "get_best_move" /\ ai.max_depth >= 1) =>
        /\ raised = NoError
        /\ ret.type = "NoneType" <=> ~CanMove(before, call.player)
        /\ ret.type = "NoneType" <=> get_valid_moves(before, call.player, order) = <<>>
        /\ ret.type # "NoneType" =>
              /\ ret.type = "tuple"
              /\ Len(ret.move) = 3
              /\ ret.move \in Range(get_valid_moves(before, call.player, order))

\* None was returned to a player who cannot move while the opponent can
C6_Witness ==
    /\ call.op = "get_best_move"
    /\ ai.max_depth >= 1
    /\ ~CanMove(before, call.player)
    /\ CanMove(before, Other(call.player))
    /\ ret.type = "NoneType"

\* a move was returned to a player who has more than one
C6_MoveReturned ==
    /\ call.op = "get_best_move"
    /\ ai.max_depth >= 1
    /\ Len(get_valid_moves(before, call.player, order)) > 1
    /\ ret.type = "tuple"

----------------------------------------------------------------------------
(* C11: a newly constructed board of size N >= 2 (a board on which nothing *)
(* was placed yet) has (A, 1) at (0, 0), (B, 1) at (N-1, N-1), every other *)
(* cell empty, A's occupancy set {(0, 0)} and B's {(N-1, N-1)}.            *)
C11_FreshBoard ==
    LET b == Deref(board)
        N == b.size
    IN (N >= 2 /\ Placed(b) = 0) =>
          /\ b.board[0][0] = <<"A", 1>>
          /\ b.board[N - 1][N - 1] = <<"B", 1>>
          /\ \A n \in Cells(b) \ {<<0, 0>>, <<N - 1, N - 1>>} : ~Occupied(b, n)
          /\ b.player_positions["A"] = {<<0, 0>>}
          /\ b.player_positions["B"] = {<<N - 1, N - 1>>}

\* a board of the largest size on which a make_move call was refused and
\* nothing was placed yet
C11_Witness ==
    /\ board.size = MaxSize
    /\ call.op = "make_move"
    /\ ret = RetBool(FALSE)
    /\ Placed(Deref(board)) = 0

----------------------------------------------------------------------------
(* C12: constructing a board with a size below 2 is rejected with an       *)
(* error and produces no board object; no board whose occupancy sets share *)
(* a coordinate, or hold a coordinate whose cell belongs to the other      *)
(* player, is ever returned.  (Any error counts here, whatever its kind.)  *)
C12_MalformedSizeRejected ==
    /\ (call.op = "__init__" /\ call.value < 2) =>
          (raised # NoError /\ board = NoObject)
    /\ board # NoObject =>
          LET b == Deref(board)
          IN /\ b.player_positions["A"] \cap b.player_positions["B"] = {}
             /\ \A p \in Players : \A n \in b.player_positions[p] :
                   Occupied(b, n) /\ Owner(b, n) = p

----------------------------------------------------------------------------
\* the counter after a get_best_move call that found moves, tree the unpruned
\* tree of the position searched
CountsOneSearch(moves, tree) ==
    /\ ai.nodes_evaluated > 0
    /\ ai.nodes_evaluated >= 1 + Len(moves)
    /\ ai.max_depth = 1 => ai.nodes_evaluated = 1 + Len(moves)
    /\ ai.nodes_evaluated <= tree.nodes
    /\ ai.nodes_evaluated
         = minimax(AsHeap(before), AsObject(before), ai.max_depth, -Inf, Inf, TRUE,
                   call.player, order).nodes

(* C13: get_best_move sets nodes_evaluated to 0 and minimax adds one per   *)
(* invocation, so after a call the counter is the number of nodes of that  *)
(* call alone, whatever it was before: 0 when the player has no move, and  *)
(* otherwise positive, the root plus at least one node per root move       *)
(* (exactly that at max_depth 1), at most the nodes of the unpruned tree,  *)
(* and the count of the same search made with a new counter.               *)
C13_NodesCountedPerCall ==
    (call.op = "get_best_move" /\ ai.max_depth >= 1) =>
        IF CanMove(before, call.player)
        THEN CountsOneSearch(get_valid_moves(before, call.player, order),
                             Exhaustive(before, ai.max_depth, TRUE, call.player, order))
        ELSE ai.nodes_evaluated = 0

\* a search was made by an AI whose counter held the nodes of an earlier
\* search, and it left another count behind
C13_Witness ==
    /\ call.op = "get_best_move"
    /\ ai_before.nodes_evaluated > 0
    /\ ai.nodes_evaluated > 0
    /\ ai.nodes_evaluated # ai_before.nodes_evaluated

----------------------------------------------------------------------------
(* The search engine with the transposition table.  Its code is not in the *)
(* Python sources, which hold its test only; it is written here from the   *)
(* specification's sections 3 (TranspositionEntry), 4.4 and 4.5.  The      *)
(* table is a function from fingerprints to entries next to the policy for *)
(* bound entries, which the specification leaves to the implementation.    *)

MaxTableDepth == 4
MaxTableSetup == 2

Miss == [depth |-> 0, score |-> 0, bound_kind |-> "miss", best_move |-> None]

TranspositionEntry(depth, score, bound_kind, best_move) ==
    [depth |-> depth, score |-> score, bound_kind |-> bound_kind, best_move |-> best_move]

NewTable(bound_hits) == [entries |-> <<>>, bound_hits |-> bound_hits]

\* mutant of fingerprint: the board contents are left out
fingerprint_without_board(b, maximizing, depth) == <<maximizing, depth>>

\* board contents, whose turn it represents, remaining search depth
fingerprint(b, maximizing, depth) == <<b.board, maximizing, depth>>

\* an entry is usable when it was recorded at the requested depth or deeper
\* and it is exact, or, where the table uses bound entries, when its bound
\* settles the node in the window; anything else is a miss
usable(T, e, depth, alpha, beta) ==
    /\ e.depth >= depth
    /\ \/ e.bound_kind = "exact"
       \/ T.bound_hits /\ e.bound_kind = "lower_bound" /\ e.score >= beta
       \/ T.bound_hits /\ e.bound_kind = "upper_bound" /\ e.score <= alpha

lookup(T, fp, depth, alpha, beta) ==
    IF fp \in DOMAIN T.entries /\ usable(T, T.entries[fp], depth, alpha, beta)
    THEN T.entries[fp]
    ELSE Miss

\* inserts or overwrites; the entry of greater depth is preferred, and an
\* exact entry is not replaced by a bound of the same or a smaller depth
store(T, fp, depth, score, bound_kind, best_move) ==
    IF /\ fp \in DOMAIN T.entries
       /\ \/ T.entries[fp].depth > depth
          \/ T.entries[fp].bound_kind = "exact" /\ bound_kind # "exact"
    THEN T
    ELSE [T EXCEPT !.entries = (fp :> TranspositionEntry(depth, score, bound_kind, best_move))
                                 @@ @]

RECURSIVE search(_, _, _, _, _, _, _, _)

\* the result of a node is stored and returned
Stored(T, b, depth, maximizing, score, move, nodes, bound_kind) ==
    [score |-> score, move |-> move, nodes |-> nodes,
     table |-> store(T, fingerprint(b, maximizing, depth), depth, score, bound_kind, move)]

\* the player to move has no move: r is the search at depth - 1, turn flipped
Passed(b, depth, maximizing, r) ==
    Stored(r.table, b, depth, maximizing, r.score, r.move, r.nodes + 1, "exact")

RECURSIVE Fold(_, _, _, _, _, _, _, _, _, _, _, _, _)

\* the score r of move i is folded into the running best of the node
FoldStep(b, depth, alpha, beta, maximizing, player, o, moves, i, best, move, nodes, r) ==
    LET improved == IF maximizing THEN r.score > best ELSE r.score < best
        new_alpha == IF maximizing /\ r.score > alpha THEN r.score ELSE alpha
        new_beta == IF ~maximizing /\ r.score < beta THEN r.score ELSE beta
    IN IF new_beta <= new_alpha
       THEN Stored(r.table, b, depth, maximizing,
                   IF improved THEN r.score ELSE best,
                   IF improved THEN moves[i] ELSE move,
                   nodes + r.nodes,
                   IF maximizing THEN "lower_bound" ELSE "upper_bound")
       ELSE Fold(r.table, b, depth, new_alpha, new_beta, maximizing, player, o, moves,
                 i + 1,
                 IF improved THEN r.score ELSE best,
                 IF improved THEN moves[i] ELSE move,
                 nodes + r.nodes)

\* the legal moves in the generator's order, from move i on
Fold(T, b, depth, alpha, beta, maximizing, player, o, moves, i, best, move, nodes) ==
    IF i > Len(moves)
    THEN Stored(T, b, depth, maximizing, best, move, nodes, "exact")
    ELSE FoldStep(b, depth, alpha, beta, maximizing, player, o, moves, i, best, move, nodes,
                  search(T,
                         set_cell(b, moves[i][1], moves[i][2],
                                  IF maximizing THEN player ELSE Other(player), moves[i][3]),
                         depth - 1, alpha, beta, ~maximizing, player, o))

\* a node that is not a leaf and missed the table
Expand(T, b, depth, alpha, beta, maximizing, player, o, moves) ==
    IF moves = <<>>
    THEN Passed(b, depth, maximizing,
                search(T, b, depth - 1, alpha, beta, ~maximizing, player, o))
    ELSE Fold(T, b, depth, alpha, beta, maximizing, player, o, moves, 1,
              IF maximizing THEN -Inf ELSE Inf, None, 1)

\* a node that is not a leaf, e what lookup gave: a usable hit is visited,
\* not expanded
Probe(T, b, depth, alpha, beta, maximizing, player, o, e) ==
    IF e.bound_kind # "miss"
    THEN [score |-> e.score, move |-> e.best_move, nodes |-> 1, table |-> T]
    ELSE Expand(T, b, depth, alpha, beta, maximizing, player, o,
                get_valid_moves(b, IF maximizing THEN player ELSE Other(player), o))

\* minimax with alpha-beta pruning and the table: [score, move, nodes, table]
search(T, b, depth, alpha, beta, maximizing, player, o) ==
    IF depth = 0 \/ is_game_over(b, o)
    THEN [score |-> evaluate_position(b, player, o), move |-> None, nodes |-> 1, table |-> T]
    ELSE Probe(T, b, depth, alpha, beta, maximizing, player, o,
               lookup(T, fingerprint(b, maximizing, depth), depth, alpha, beta))

\* what best_move gives of the root search r
BestOf(r) ==
    [ret |-> IF r.move = None THEN RetNone ELSE RetMove(r.move),
     score |-> r.score, nodes_evaluated |-> r.nodes]

\* best_move(board, player, max_depth) with the table enabled
best_move(b, player, max_depth, bound_hits, o) ==
    IF get_valid_moves(b, player, o) = <<>>
    THEN [ret |-> RetNone, score |-> 0, nodes_evaluated |-> 0]
    ELSE BestOf(search(NewTable(bound_hits), b, max_depth, -Inf, Inf, TRUE, player, o))

\* board = GameBoard(size); ai = SequenciumAI(max_depth, use_cpp=True)
InitTable ==
    /\ \E size \in 2..MaxSize :
          /\ heap = AsHeap(NewBoard(size))
          /\ board = AsObject(NewBoard(size))
    /\ board_copy = NoObject
    /\ \E max_depth \in 1..MaxTableDepth : ai = NewAI(max_depth)
    /\ order \in 0..(NumOrders - 1)
    /\ call = NoCall
    /\ before = NoBoard
    /\ other_before = NoBoard
    /\ ai_before = NewAI(0)
    /\ play = NoPlay
    /\ pc = "none"
    /\ ret = RetNone
    /\ raised = NoError

BestMoveDone(r) ==
    /\ ai' = [ai EXCEPT !.nodes_evaluated = r.nodes_evaluated]
    /\ ret' = [r.ret EXCEPT !.score = r.score]
    /\ raised' = NoError

\* ai.get_best_move(board, player) answered by the engine with the table
BestMove(player, bound_hits) ==
    /\ Called("best_move", "ai", 0, 0, player, IF bound_hits THEN 1 ELSE 0)
    /\ BestMoveDone(best_move(Deref(board), player, ai.max_depth, bound_hits, order))
    /\ UNCHANGED <<heap, board, board_copy, order>>

\* a position is set up with make_move calls before the engine searches
SetUpTable ==
    /\ ai.nodes_evaluated = 0
    /\ Placed(Deref(board)) < MaxTableSetup
    /\ \E a \in ListedMoves(Deref(board), order) : MakeMove("board", a[1], a[2], a[3], a[4])

NextTable ==
    \/ SetUpTable
    \/ \E player \in Players, bound_hits \in BOOLEAN : BestMove(player, bound_hits)
    \/ Return

SpecTable == InitTable /\ [][NextTable]_vars

\* the search of the Python code, without a table, on the board of the call
WithoutTable ==
    get_best_move(AsHeap(before), AsObject(before), ai.max_depth, call.player, order)

\* r the search without the table
SameAsWithoutTable(r) ==
    /\ ret.type = r.ret.type
    /\ ret.score = r.score
    /\ ret.type = "tuple" =>
          /\ ret.move \in Range(get_valid_moves(before, call.player, order))
          /\ MoveValue(before, ai.max_depth, call.player, order, ret.move)
               = MoveValue(before, ai.max_depth, call.player, order, r.ret.move)
    /\ ai.nodes_evaluated <= r.nodes_evaluated

----------------------------------------------------------------------------
(* An AI constructed with a depth of zero or less: SequenciumAI.__init__   *)
(* stores any max_depth, and minimax stops on depth == 0 alone.            *)

MaxNegativeDepth == 1
MaxDepthSetup == 2

\* board = GameBoard(size); ai = SequenciumAI(max_depth), max_depth <= 0
InitDepth ==
    /\ \E size \in 2..MaxSize :
          /\ heap = AsHeap(NewBoard(size))
          /\ board = AsObject(NewBoard(size))
    /\ board_copy = NoObject
    /\ \E max_depth \in (-MaxNegativeDepth)..0 : ai = NewAI(max_depth)
    /\ order \in 0..(NumOrders - 1)
    /\ call = NoCall
    /\ before = NoBoard
    /\ other_before = NoBoard
    /\ ai_before = NewAI(0)
    /\ play = NoPlay
    /\ pc = "none"
    /\ ret = RetNone
    /\ raised = NoError

\* a position is set up with make_move calls before the AI searches
SetUpDepth ==
    /\ ai.nodes_evaluated = 0
    /\ Placed(Deref(board)) < MaxDepthSetup
    /\ \E a \in ListedMoves(Deref(board), order) : MakeMove("board", a[1], a[2], a[3], a[4])

NextDepth ==
    \/ SetUpDepth
    \/ \E player \in Players : GetBestMove(player)
    \/ Return

SpecDepth == InitDepth /\ [][NextDepth]_vars

(* C15: when max_depth <= 0 and the player has a legal move, minimax is    *)
(* invoked exactly once, the score is the static evaluation of the root    *)
(* board, no move comes with it and get_best_move returns None.            *)
C15_NonPositiveDepthNoRecursion ==
    (call.op = "get_best_move" /\ ai.max_depth <= 0 /\ CanMove(before, call.player)) =>
        /\ ai.nodes_evaluated = 1
        /\ ret.type = "NoneType"
        /\ ret.score = evaluate_position(before, call.player, order)

\* the same for max_depth = 0 alone, which is what the code does
C15_ZeroDepthNoRecursion ==
    (call.op = "get_best_move" /\ ai.max_depth = 0 /\ CanMove(before, call.player)) =>
        /\ ai.nodes_evaluated = 1
        /\ ret.type = "NoneType"
        /\ ret.score = evaluate_position(before, call.player, order)

----------------------------------------------------------------------------
\* the coordinates a list of moves names
Targets(moves) == {<<moves[i][1], moves[i][2]>> : i \in 1..Len(moves)}

(* C16: the list get_valid_moves returns for a player names a coordinate   *)
(* at most once; the coordinates it names are exactly the empty cells with *)
(* at least one 8-neighbour owned by the player; and the value listed for  *)
(* a coordinate is 1 + the highest value among the player's cells that     *)
(* touch it.                                                               *)
C16_OneMovePerTarget ==
    call.op = "get_valid_moves" =>
        /\ Cardinality(Targets(ret.list)) = Len(ret.list)
        /\ Targets(ret.list)
             = {n \in Cells(before) :
                  ~Occupied(before, n) /\ OwnedNeighbours(before, n[1], n[2], call.player) # {}}
        /\ \A i \in 1..Len(ret.list) :
              ret.list[i][3] = LegalValue(before, ret.list[i][1], ret.list[i][2], call.player)

\* a listed coordinate touches cells of the player with different values, so
\* that more than one value was proposed for it
C16_Witness ==
    /\ call.op = "get_valid_moves"
    /\ \E i \in 1..Len(ret.list) :
          Cardinality({ValueAt(before, n) :
                         n \in OwnedNeighbours(before, ret.list[i][1], ret.list[i][2],
                                               call.player)}) >= 2
    /\ Len(ret.list) >= 2

----------------------------------------------------------------------------
\* the cell at n holds a positive value and, above 1, touches a cell of its
\* owner that holds one less
Chained(b, n) ==
    /\ ValueAt(b, n) >= 1
    /\ ValueAt(b, n) > 1 =>
          \E m \in OwnedNeighbours(b, n[1], n[2], Owner(b, n)) : ValueAt(b, m) = ValueAt(b, n) - 1

(* C17: after any sequence of make_move calls every occupied cell has a    *)
(* value >= 1 and, when its value v is above 1, an 8-neighbour of the same *)
(* owner with value v - 1; a cell placed with value v had, when it was     *)
(* placed, no 8-neighbour of its owner with value >= v, and the cells      *)
(* placed before it keep their owner and value.                            *)
C17_ValueChain ==
    /\ \A n \in Cells(Deref(board)) : Occupied(Deref(board), n) => Chained(Deref(board), n)
    /\ (call.op = "make_move" /\ ret = RetBool(TRUE)) =>
          /\ call.value > 1
          /\ \A m \in OwnedNeighbours(before, call.row, call.col, call.player) :
                ValueAt(before, m) < call.value
          /\ \E m \in OwnedNeighbours(before, call.row, call.col, call.player) :
                ValueAt(before, m) = call.value - 1
          /\ \A n \in Cells(before) :
                Occupied(before, n) => Deref(board).board[n[1]][n[2]] = before.board[n[1]][n[2]]

\* a value of 3 or more was placed next to cells of the player with different
\* values
C17_Witness ==
    /\ call.op = "make_move"
    /\ ret = RetBool(TRUE)
    /\ call.value >= 3
    /\ Cardinality({ValueAt(before, m) :
                      m \in OwnedNeighbours(before, call.row, call.col, call.player)}) >= 2

----------------------------------------------------------------------------
(* minimax called directly, as a caller of the class may, at any depth,    *)
(* with either player to move and with a full or a narrow window, next to  *)
(* get_best_move.                                                          *)

Windows == {<<-Inf, Inf>>, <<-10, 10>>}

\* board = GameBoard(size); ai = SequenciumAI(max_depth)
InitSearch ==
    /\ \E size \in 2..MaxSize :
          /\ heap = AsHeap(NewBoard(size))
          /\ board = AsObject(NewBoard(size))
    /\ board_copy = NoObject
    /\ ai = NewAI(MaxDepth)
    /\ order \in 0..(NumOrders - 1)
    /\ call = NoCall
    /\ before = NoBoard
    /\ other_before = NoBoard
    /\ ai_before = NewAI(0)
    /\ play = NoPlay
    /\ pc = "none"
    /\ ret = RetNone
    /\ raised = NoError

\* what minimax leaves behind, r its [score, move, nodes, heap, raised]
MinimaxDone(r) ==
    /\ heap' = Collect(r.heap, heap)
    /\ ai' = [ai EXCEPT !.nodes_evaluated = @ + r.nodes]
    /\ ret' = [(IF r.move = None THEN RetNone ELSE RetMove(r.move)) EXCEPT !.score = r.score]
    /\ raised' = r.raised

\* ai.minimax(board, depth, alpha, beta, maximizing_player, player) on an AI
\* that has not searched yet
Minimax(depth, alpha, beta, maximizing_player, player) ==
    /\ ai.nodes_evaluated = 0
    /\ call = NoCall
    /\ call' = [Call("minimax", "ai", 0, 0, player, 0)
                  EXCEPT !.depth = depth, !.alpha = alpha, !.beta = beta,
                         !.maximizing_player = maximizing_player]
    /\ before' = Deref(board)
    /\ other_before' = NoBoard
    /\ ai_before' = ai
    /\ play' = play
    /\ pc' = pc
    /\ MinimaxDone(minimax(heap, board, depth, alpha, beta, maximizing_player, player, order))
    /\ UNCHANGED <<board, board_copy, order>>

\* ai.evaluate_position(board, player); the score is kept in ret
EvaluatePosition(player) ==
    /\ ai.nodes_evaluated = 0
    /\ Called("evaluate_position", "ai", 0, 0, player, 0)
    /\ ret' = [RetNone EXCEPT !.type = "int",
                              !.score = evaluate_position(Deref(board), player, order)]
    /\ raised' = NoError
    /\ UNCHANGED <<heap, board, board_copy, ai, order>>

NextSearch ==
    \/ SetUp
    \/ \E player \in Players : EvaluatePosition(player)
    \/ \E depth \in 0..MaxDepth, w \in Windows, maximizing_player \in BOOLEAN,
          player \in Players :
          Minimax(depth, w[1], w[2], maximizing_player, player)
    \/ ai.nodes_evaluated = 0 /\ \E player \in Players : GetBestMove(player)
    \/ Return

SpecSearch == InitSearch /\ [][NextSearch]_vars

\* the player to move at the node of the call
Mover == IF call.maximizing_player THEN call.player ELSE Other(call.player)

\* the node of the call is one where the player to move must pass
PassAtRoot ==
    /\ call.op = "minimax"
    /\ call.depth > 0
    /\ ~CanMove(before, Mover)
    /\ CanMove(before, Other(Mover))

\* the call returned what sub returned, sub the search of the same board one
\* level less deep with the other player to move, after one more node
PassedTo(sub) ==
    /\ raised = NoError
    /\ ret.score = sub.score
    /\ ret.move = sub.move
    /\ ai.nodes_evaluated = 1 + sub.nodes
    /\ Deref(board) = before
    /\ (call.alpha = -Inf /\ call.beta = Inf) =>
          ret.score = Exhaustive(before, call.depth - 1, ~call.maximizing_player,
                                 call.player, order).score
    /\ call.depth >= 2 =>
          /\ ret.type = "tuple"
          /\ ret.move \in Range(get_valid_moves(before, Other(Mover), order))

(* C18: at a node with depth > 0 where the game is not over and the player *)
(* to move has no legal move, minimax returns the result (score and move)  *)
(* of searching the same board at depth - 1 with the other player to move  *)
(* and the same alpha, beta and root player, having counted one node more; *)
(* with depth >= 2 that result carries a move of the other player, which a *)
(* terminal evaluation never does.                                         *)
C18_PassRule ==
    PassAtRoot =>
        PassedTo(minimax(AsHeap(before), AsObject(before), call.depth - 1, call.alpha,
                         call.beta, ~call.maximizing_player, call.player, order))

\* a pass at depth 3 in a narrow window whose score is not the static
\* evaluation of the board
C18_Witness ==
    /\ PassAtRoot
    /\ call.depth = 3
    /\ call.alpha = -10
    /\ ret.type = "tuple"
    /\ ret.score # evaluate_position(before, call.player, order)

----------------------------------------------------------------------------
\* the unpruned values of the root moves of the call, in the order of the list
RootValues(moves) ==
    [i \in 1..Len(moves) |-> MoveValue(before, ai.max_depth, call.player, order, moves[i])]

\* the move returned is the first of moves whose value is the highest of values
FirstBest(moves, values) ==
    \E i \in 1..Len(moves) :
        /\ ret.move = moves[i]
        /\ \A j \in 1..Len(moves) : values[j] <= values[i]
        /\ \A j \in 1..(i - 1) : values[j] < values[i]

\* moves holds, after the move returned, a move of the same value
LaterEqual(moves, values) ==
    \E i \in 1..Len(moves) :
        /\ ret.move = moves[i]
        /\ \E j \in (i + 1)..Len(moves) : values[j] = values[i]

(* C19: for max_depth >= 1 the move get_best_move returns is the first     *)
(* move, in the order of get_valid_moves, whose unpruned minimax value is  *)
(* the highest among the root moves; a later move of equal value, searched *)
(* with the window the earlier moves have narrowed, does not replace it.   *)
C19_FirstBestMove ==
    (call.op = "get_best_move" /\ ai.max_depth >= 1 /\ ret.type = "tuple") =>
        FirstBest(get_valid_moves(before, call.player, order),
                  RootValues(get_valid_moves(before, call.player, order)))

\* a search of depth 2 or more returned a move that is followed, in the list,
\* by a move of the same unpruned value
C19_Witness ==
    /\ call.op = "get_best_move"
    /\ ai.max_depth >= 2
    /\ ret.type = "tuple"
    /\ LaterEqual(get_valid_moves(before, call.player, order),
                  RootValues(get_valid_moves(before, call.player, order)))

----------------------------------------------------------------------------
(* C20: get_best_move and minimax do not modify the board passed to them:  *)
(* after the call the grid and both occupancy sets of the root board are   *)
(* what they were before it, the board variable names the same object, and *)
(* the heap holds that object alone again; the moves of the search were    *)
(* made on copies.                                                         *)
C20_SearchLeavesBoard ==
    call.op \in {"get_best_move", "minimax"} =>
        /\ raised = NoError
        /\ Deref(board) = before
        /\ heap = AsHeap(before)
        /\ board = AsObject(before)

\* a search of depth 3 that made moves at more than one level and returned one
C20_Witness ==
    /\ call.op \in {"get_best_move", "minimax"}
    /\ IF call.op = "minimax" THEN call.depth = 3 ELSE ai.max_depth = 3
    /\ ret.type = "tuple"
    /\ ai.nodes_evaluated
         > 1 + Len(get_valid_moves(before, call.player, order))
    /\ Placed(before) > 0

----------------------------------------------------------------------------
\* the cells of the grid player owns, and the empty cells player may move to
OwnedCells(b, player) == {n \in Cells(b) : Occupied(b, n) /\ Owner(b, n) = player}
Mobility(b, player) ==
    {n \in Cells(b) : ~Occupied(b, n) /\ OwnedNeighbours(b, n[1], n[2], player) # {}}

(* C21: evaluate_position(board, p), q the opponent of p, returns          *)
(* 100 * (max_value(p) - max_value(q)) + 10 * (cells of p - cells of q)    *)
(* + (legal moves of p - legal moves of q), each term read off the grid,   *)
(* and leaves the board as it was.                                         *)
C21_EvaluationFormula ==
    call.op = "evaluate_position" =>
        /\ ret.score
             = 100 * (GridMax(before, call.player) - GridMax(before, Other(call.player)))
               + 10 * (Cardinality(OwnedCells(before, call.player))
                       - Cardinality(OwnedCells(before, Other(call.player))))
               + (Cardinality(Mobility(before, call.player))
                  - Cardinality(Mobility(before, Other(call.player))))
        /\ Deref(board) = before
        /\ raised = NoError

\* an evaluation in which the three terms are all nonzero and do not all
\* have the same sign
C21_Witness ==
    /\ call.op = "evaluate_position"
    /\ GridMax(before, call.player) > GridMax(before, Other(call.player))
    /\ Cardinality(OwnedCells(before, call.player))
         # Cardinality(OwnedCells(before, Other(call.player)))
    /\ Cardinality(Mobility(before, call.player))
         < Cardinality(Mobility(before, Other(call.player)))

----------------------------------------------------------------------------
(* Whole games: from a new board, any listed move of either player is      *)
(* placed until no move is left, in any order of the players.              *)

InitGame ==
    /\ \E size \in 2..MaxSize :
          /\ heap = AsHeap(NewBoard(size))
          /\ board = AsObject(NewBoard(size))
    /\ board_copy = NoObject
    /\ ai = NewAI(0)
    /\ order \in 0..(NumOrders - 1)
    /\ call = NoCall
    /\ before = NoBoard
    /\ other_before = NoBoard
    /\ ai_before = NewAI(0)
    /\ play = NoPlay
    /\ pc = "none"
    /\ ret = RetNone
    /\ raised = NoError

\* board.make_move(row, col, player, value) with a move listed for player
Place ==
    \E a \in ListedMoves(Deref(board), order) : MakeMove("board", a[1], a[2], a[3], a[4])

NextGame ==
    \/ Place
    \/ IsGameOver
    \/ Return

SpecGame == InitGame /\ [][NextGame]_vars

\* the empty cells of the grid
EmptyCells(b) == {n \in Cells(b) : ~Occupied(b, n)}

\* over is what is_game_over gives on board value b
OverIffFull(b, over) ==
    /\ over <=> EmptyCells(b) = {}
    /\ EmptyCells(b) # {} => (CanMove(b, "A") \/ CanMove(b, "B"))
    /\ over => Placed(b) = b.size * b.size - 2

(* C22: on every board reached from the new board of size N by legal moves *)
(* is_game_over() is true exactly when no cell is empty; while a cell is   *)
(* empty one of the players touches an empty cell, and a board on which    *)
(* the game is over holds N * N - 2 placements.                            *)
C22_GameOverIffFull ==
    /\ OverIffFull(Deref(board), is_game_over(Deref(board), order))
    /\ call.op = "is_game_over" => OverIffFull(before, ret.bool)

\* is_game_over() gave False on a 3x3 board on which one player has no move
\* left
C22_Witness ==
    /\ call.op = "is_game_over"
    /\ before.size = 3
    /\ ret = RetBool(FALSE)
    /\ \E p \in Players : ~CanMove(before, p)

\* is_game_over() gave True on a full 3x3 board
C22_FullBoardReached ==
    /\ call.op = "is_game_over"
    /\ before.size = 3
    /\ ret = RetBool(TRUE)
    /\ EmptyCells(before) = {}

----------------------------------------------------------------------------
(* play_game(board_size, ai_depth): the loop that lets the AI play both    *)
(* players, a statement at a time.  It is played on the sizes 2..MaxSize   *)
(* with the depths 0..MaxDepth and on the default size with the depths     *)
(* 0..MaxDefaultDepth.  move_count and idle stop growing at MaxMoveCount   *)
(* and MaxIdle, which no game with a depth >= 1 reaches.                   *)

DefaultSize == 6
MaxDefaultDepth == 2
MaxMoveCount == 40
MaxIdle == 2

PlayArgs == ((2..MaxSize) \X (0..MaxDepth)) \cup ({DefaultSize} \X (0..MaxDefaultDepth))

\* the statements of play_game the model stops at
Statements == {"while", "moves", "best", "apply", "switch", "done"}

UpTo(n, max) == IF n < max THEN n ELSE max

\* board = GameBoard(board_size); ai = SequenciumAI(max_depth=ai_depth);
\* current_player = Player.A; move_count = 0
InitPlay ==
    /\ \E a \in PlayArgs :
          /\ heap = AsHeap(NewBoard(a[1]))
          /\ board = AsObject(NewBoard(a[1]))
          /\ ai = NewAI(a[2])
    /\ board_copy = NoObject
    /\ order \in 0..(NumOrders - 1)
    /\ call = NoCall
    /\ before = NoBoard
    /\ other_before = NoBoard
    /\ ai_before = NewAI(0)
    /\ play = [NoPlay EXCEPT !.current_player = "A"]
    /\ pc = "while"
    /\ ret = RetNone
    /\ raised = NoError

\* while not board.is_game_over(): the loop is entered
PlayWhile ==
    /\ pc = "while"
    /\ ~is_game_over(Deref(board), order)
    /\ pc' = "moves"
    /\ UNCHANGED <<heap, board, board_copy, ai, order, call, before, other_before,
                   ai_before, play, ret, raised>>

\* while not board.is_game_over(): the loop is left and play_game returns the
\* board and board.get_winner()
PlayOver ==
    /\ pc = "while"
    /\ is_game_over(Deref(board), order)
    /\ pc' = "done"
    /\ ret' = get_winner(Deref(board))
    /\ UNCHANGED <<heap, board, board_copy, ai, order, call, before, other_before,
                   ai_before, play, raised>>

\* valid_moves = board.get_valid_moves(current_player) is empty: the player is
\* switched and the loop continues
PlayPass ==
    /\ pc = "moves"
    /\ get_valid_moves(Deref(board), play.current_player, order) = <<>>
    /\ pc' = "while"
    /\ play' = [play EXCEPT !.valid_moves = <<>>,
                            !.current_player = IF @ = "A" THEN "B" ELSE "A",
                            !.idle = UpTo(@ + 1, MaxIdle)]
    /\ UNCHANGED <<heap, board, board_copy, ai, order, call, before, other_before,
                   ai_before, ret, raised>>

\* valid_moves = board.get_valid_moves(current_player) is not empty;
\* move_count += 1
PlayListed ==
    /\ pc = "moves"
    /\ get_valid_moves(Deref(board), play.current_player, order) # <<>>
    /\ pc' = "best"
    /\ play' = [play EXCEPT !.valid_moves = get_valid_moves(Deref(board), play.current_player,
                                                            order),
                            !.move_count = UpTo(@ + 1, MaxMoveCount)]
    /\ UNCHANGED <<heap, board, board_copy, ai, order, call, before, other_before,
                   ai_before, ret, raised>>

\* what best_move = ai.get_best_move(board, current_player) leaves behind, r
\* its [ret, score, nodes_evaluated, heap, raised]
PlayBestDone(r) ==
    /\ heap' = Collect(r.heap, heap)
    /\ ai' = [ai EXCEPT !.nodes_evaluated = ResetCount(@) + r.nodes_evaluated]
    /\ raised' = r.raised
    /\ play' = [play EXCEPT !.best_move = r.ret.move]

\* best_move = ai.get_best_move(board, current_player)
PlayBest ==
    /\ pc = "best"
    /\ pc' = "apply"
    /\ PlayBestDone(get_best_move(heap, board, ai.max_depth, play.current_player, order))
    /\ UNCHANGED <<board, board_copy, order, call, before, other_before, ai_before, ret>>

\* what board.make_move(row, col, current_player, value) leaves behind, r its
\* [raised, ret, b]
PlayApplyDone(r) ==
    /\ heap' = Store(heap, board, r.b)
    /\ raised' = r.raised
    /\ play' = [play EXCEPT !.changed = r.ret.bool,
                            !.placed = IF r.ret.bool THEN @ + 1 ELSE @]

\* if best_move: board.make_move(row, col, current_player, value)
PlayApply ==
    /\ pc = "apply"
    /\ play.best_move # None
    /\ pc' = "switch"
    /\ PlayApplyDone(make_move(Deref(board), play.best_move[1], play.best_move[2],
                               play.current_player, play.best_move[3], order))
    /\ UNCHANGED <<board, board_copy, ai, order, call, before, other_before, ai_before, ret>>

\* if best_move: best_move is None, nothing is placed
PlaySkip ==
    /\ pc = "apply"
    /\ play.best_move = None
    /\ pc' = "switch"
    /\ UNCHANGED <<heap, board, board_copy, ai, order, call, before, other_before,
                   ai_before, play, ret, raised>>

\* current_player = the other player, at the end of the iteration
PlaySwitch ==
    /\ pc = "switch"
    /\ pc' = "while"
    /\ play' = [play EXCEPT !.current_player = IF @ = "A" THEN "B" ELSE "A",
                            !.idle = IF play.changed THEN 0 ELSE UpTo(@ + 1, MaxIdle),
                            !.skipped = @ \/ ~play.changed,
                            !.changed = FALSE]
    /\ UNCHANGED <<heap, board, board_copy, ai, order, call, before, other_before,
                   ai_before, ret, raised>>

NextPlay ==
    \/ PlayWhile
    \/ PlayOver
    \/ PlayPass
    \/ PlayListed
    \/ PlayBest
    \/ PlayApply
    \/ PlaySkip
    \/ PlaySwitch

\* play_game is at a statement and goes to another: what every step of
\* NextPlay does, and all the fairness condition has to look at
Advance == pc \in Statements \ {"done"} /\ pc' \in Statements \ {pc}

\* play_game runs on as long as it has a statement to run: a single thread
\* that nothing suspends
SpecPlay == InitPlay /\ [][NextPlay]_vars /\ WF_pc(Advance)

\* play_game has left its loop
PlayDone == pc = "done"

\* what holds of a game played with a depth >= 1 at every statement
PlayedInTurn ==
    /\ ~play.skipped
    /\ play.placed = Placed(Deref(board))
    /\ play.move_count = play.placed + (IF pc \in {"best", "apply"} THEN 1 ELSE 0)
    /\ play.move_count < MaxMoveCount
    /\ pc = "switch" => play.changed
    /\ PlayDone =>
          /\ is_game_over(Deref(board), order)
          /\ play.placed = board.size * board.size - 2
          /\ play.move_count = board.size * board.size - 2

(* C23: for ai_depth >= 1 the loop of play_game ends: is_game_over() is    *)
(* reached, by then N * N - 2 placements were made, all successful, and a  *)
(* turn went by without a placement only for a player without a legal      *)
(* move.                                                                   *)
C23_PlayGameTerminates ==
    /\ [](ai.max_depth >= 1 => PlayedInTurn)
    /\ (pc = "while" /\ ai.max_depth >= 1) ~> PlayDone

\* a game of depth 2 or more on a board of size 3 or more has ended
C23_Witness ==
    /\ PlayDone
    /\ ai.max_depth >= 2
    /\ board.size >= 3
    /\ play.placed = board.size * board.size - 2

\* a game with a depth >= 1 in which a player without a move was passed over
C23_PassReached ==
    /\ ai.max_depth >= 1
    /\ play.idle = 1
    /\ pc = "while"

(* C24: for ai_depth >= 0 no two iterations of the loop of play_game in a  *)
(* row leave the board as it was while the game is not over.               *)
C24_PlayGameProgress ==
    (pc # "none" /\ ai.max_depth >= 0) => play.idle < 2

\* the same for ai_depth >= 1, which is what the code does
C24_ProgressFromDepthOne ==
    (pc # "none" /\ ai.max_depth >= 1) => play.idle < 2

\* for ai_depth = 0 the loop of play_game does not end
C24_DepthZeroNeverDone ==
    ai.max_depth = 0 => ~PlayDone

----------------------------------------------------------------------------
\* what a successful make_move(row, col, player, value) made of board b: after
Placement(b, after, row, col, player, value) ==
    /\ b.board[row][col] = None
    /\ after.board[row][col] = <<player, value>>
    /\ \A n \in Cells(b) : n # <<row, col>> => after.board[n[1]][n[2]] = b.board[n[1]][n[2]]
    /\ <<row, col>> \notin b.player_positions[player]
    /\ after.player_positions[player] = b.player_positions[player] \cup {<<row, col>>}
    /\ after.player_positions[Other(player)] = b.player_positions[Other(player)]
    /\ after.size = b.size

(* C25: a make_move that returns True changes one grid cell, from empty to *)
(* (player, value), and adds that coordinate, and nothing else, to the     *)
(* player's occupancy set; all other cells and the opponent's set are as   *)
(* before; a make_move that returns False changes nothing; so over any     *)
(* call get_max_value of neither player goes down, and it is >= 1 on every *)
(* board.                                                                  *)
C25_PlacementFrame ==
    /\ \A p \in Players : get_max_value(Deref(board), p) >= 1
    /\ (call.op = "make_move" /\ ret = RetBool(TRUE)) =>
          Placement(before, Deref(board), call.row, call.col, call.player, call.value)
    /\ (call.op = "make_move" /\ ret = RetBool(FALSE)) => Deref(board) = before
    /\ call.op = "make_move" =>
          \A p \in Players :
              /\ get_max_value(Deref(board), p) >= get_max_value(before, p)
              /\ get_max_value(Deref(board), p) = GridMax(Deref(board), p)

\* a placement below the highest value of the player, which leaves the
\* player's max_value as it was, on a board where the opponent has placed too
C25_Witness ==
    /\ call.op = "make_move"
    /\ ret = RetBool(TRUE)
    /\ call.value < get_max_value(before, call.player)
    /\ get_max_value(Deref(board), call.player) = get_max_value(before, call.player)
    /\ Cardinality(before.player_positions[Other(call.player)]) >= 2

====
